---------------------------- MODULE Spec2Model ----------------------------
(***************************************************************************)
(* NJORD CO2 monitor (src/main.py): two cooperative asyncio tasks          *)
(* (ui_task, co2_task), main's keep-alive loop and the top-level           *)
(* try/except around asyncio.run(main()).                                  *)
(*                                                                         *)
(* Granularity: one action per statement of a coroutine.  `current` is the *)
(* coroutine that holds the (single) scheduler thread; a coroutine gives   *)
(* it up only at `await asyncio.sleep_ms(..)` or by ending.  The sensor    *)
(* driver and the GUI toolkit are external: their return values are        *)
(* nondeterministic inputs, and each of their calls may raise.             *)
(***************************************************************************)
EXTENDS Integers, Sequences, FiniteSets, TLC

VARIABLES
    run,          \* process state: "Running" | "Terminating"
    handler_pc,   \* position in the except clause (main.py 153-156)
    exc,          \* the exception asyncio.run raised, "none" while Running
    current,      \* coroutine holding the scheduler thread, or "none"
    main_pc,      \* position of main()
    ui_pc,        \* position of ui_task()
    co2_pc,       \* position of co2_task()
    sleep_ms,     \* per coroutine: the delay it is suspended for (0: not suspended)
    ppm,          \* co2_task local `ppm`   (<<>> while unbound)
    level,        \* co2_task local `level` (<<>> while unbound or None)
    labels,       \* the four label widgets co2_task writes: text and color
    \* ---- observation (history) variables, written but never read by the code
    lastAct,      \* name of the last statement executed
    stopCount,    \* co2.set_stop_periodic_measurement() calls issued
    startCount,   \* co2.set_start_periodic_measurement() calls issued
    queried,      \* some is_data_ready() query was issued
    readAny,      \* some co2/temperature/humidity property was read
    iterReady,    \* result of the is_data_ready() of the current iteration
    textWrites,   \* per label: set_text calls in the current iteration
    colorWrites,  \* per label: set_text_color calls in the current iteration
    sleptSince,   \* co2_task suspensions since its last query (or its start)
    gapAtQuery,   \* sleptSince as it was at the latest query
    firstQuery,   \* the latest query was the first one
    co2Faulted,   \* a sensor-driver call of co2_task raised
    deinitCount,  \* m5ui.deinit() calls
    printCount    \* print_error_msg() calls

vars == <<run, handler_pc, exc, current, main_pc, ui_pc, co2_pc, sleep_ms,
          ppm, level, labels, lastAct, stopCount, startCount, queried,
          readAny, iterReady, textWrites, colorWrites, sleptSince,
          gapAtQuery, firstQuery, co2Faulted, deinitCount, printCount>>

procVars == <<run, handler_pc, exc>>
histCmd  == <<stopCount, startCount>>
histIter == <<iterReady, textWrites, colorWrites>>
histGap  == <<sleptSince, gapAtQuery, firstQuery>>
histEnd  == <<deinitCount, printCount>>

-----------------------------------------------------------------------------
(* Bounds of the model *)

\* readings of co2.co2 are 250 * k for k in -NegSteps..MaxSteps, and 600
MaxSteps == 6
NegSteps == 1
\* co2.temperature, co2.humidity are drawn from 0..MaxTemp, 0..MaxHum
MaxTemp == 1
MaxHum == 1
\* the classifier alone is checked on every integer in -MaxNeg..MaxPpm
MaxPpm == 1600
MaxNeg == 3

(* Program constants *)
UI_UPDATE_RATE_MS == 20
CO2_POLL_RATE_MS == 1000
MAIN_KEEPALIVE_MS == 10000

\* float("inf"): greater than every reading
Inf == -1

PpmReadings == {250 * k : k \in (0 - NegSteps)..MaxSteps} \cup {600}
TempReadings == 0..MaxTemp
HumReadings == 0..MaxHum
PpmDomain == ((0 - MaxNeg)..MaxPpm) \cup {1000000}

LabelNames == {"label_ppm", "label_level", "label_temperature", "label_humidity"}
Tasks == {"main", "ui", "co2"}

-----------------------------------------------------------------------------
(* lv.color_hex: a 24-bit 0xRRGGBB number to an lv_color_t *)
color_hex(h) ==
    [red   |-> (h \div 65536) % 256,
     green |-> (h \div 256) % 256,
     blue  |-> h % 256]

\* co2_levels with a color of its own for "Good"
co2_levels_good_yellow ==
    << [level |-> "Excellent",  min_ppm |-> 0,    max_ppm |-> 500,
        color |-> color_hex(4441167)],
       [level |-> "Good",       min_ppm |-> 500,  max_ppm |-> 700,
        color |-> color_hex(14075953)],
       [level |-> "Acceptable", min_ppm |-> 700,  max_ppm |-> 1000,
        color |-> color_hex(14075953)],
       [level |-> "Poor",       min_ppm |-> 1000, max_ppm |-> 1500,
        color |-> color_hex(14057777)],
       [level |-> "Bad",        min_ppm |-> 1500, max_ppm |-> Inf,
        color |-> color_hex(14037297)] >>

co2_levels ==
    << [level |-> "Excellent",  min_ppm |-> 0,    max_ppm |-> 500,
        color |-> color_hex(4441167)],
       [level |-> "Good",       min_ppm |-> 500,  max_ppm |-> 700,
        color |-> color_hex(4441167)],
       [level |-> "Acceptable", min_ppm |-> 700,  max_ppm |-> 1000,
        color |-> color_hex(14075953)],
       [level |-> "Poor",       min_ppm |-> 1000, max_ppm |-> 1500,
        color |-> color_hex(14057777)],
       [level |-> "Bad",        min_ppm |-> 1500, max_ppm |-> Inf,
        color |-> color_hex(14037297)] >>

\* InBand with the upper threshold taken as inclusive
InBand_closed(band, p) ==
    /\ band.min_ppm <= p
    /\ (band.max_ppm = Inf \/ p <= band.max_ppm)

\* level["min_ppm"] <= ppm < level["max_ppm"], with max_ppm possibly float("inf")
InBand(band, p) ==
    /\ band.min_ppm <= p
    /\ (band.max_ppm = Inf \/ p < band.max_ppm)

RECURSIVE ScanLevels(_, _, _)
ScanLevels(levels, i, p) ==
    IF i > Len(levels) THEN <<>>
    ELSE IF InBand(levels[i], p) THEN <<levels[i]>>
    ELSE ScanLevels(levels, i + 1, p)

\* get_co2_level: <<band>> for the first band that matches, <<>> for None
get_co2_level(p) == ScanLevels(co2_levels, 1, p)

-----------------------------------------------------------------------------
(* Widgets *)

\* str(x) + suffix
Formatted(x, suffix) == [n |-> <<x>>, s |-> suffix]
\* the placeholder texts of main.py 138-141
Placeholder(t) == [n |-> <<>>, s |-> t]

InitLabels ==
    [l \in LabelNames |->
        [text  |-> Placeholder(CASE l = "label_ppm" -> "ppm"
                                 [] l = "label_level" -> "level"
                                 [] l = "label_temperature" -> "temperature"
                                 [] l = "label_humidity" -> "humidity"),
         color |-> color_hex(16777215)]]

NoWrites == [l \in LabelNames |-> 0]

\* label.set_text(t)
set_text(l, t) ==
    /\ labels' = [labels EXCEPT ![l].text = t]
    /\ textWrites' = [textWrites EXCEPT ![l] = @ + 1]
    /\ UNCHANGED colorWrites

\* label.set_text_color(c, 255, lv.PART.MAIN | lv.STATE.DEFAULT)
set_text_color(l, c) ==
    /\ labels' = [labels EXCEPT ![l].color = c]
    /\ colorWrites' = [colorWrites EXCEPT ![l] = @ + 1]
    /\ UNCHANGED textWrites

-----------------------------------------------------------------------------
InitProcess ==
    /\ run = "Running"
    /\ handler_pc = "none"
    /\ exc = "none"
    /\ current = "main"
    /\ main_pc = "keepalive"
    /\ ui_pc = "begin"
    /\ co2_pc = "begin"
    /\ sleep_ms = [t \in Tasks |-> 0]
    /\ labels = InitLabels
    /\ stopCount = 0
    /\ startCount = 0
    /\ queried = FALSE
    /\ readAny = FALSE
    /\ iterReady = "none"
    /\ textWrites = NoWrites
    /\ colorWrites = NoWrites
    /\ sleptSince = 0
    /\ gapAtQuery = 0
    /\ firstQuery = FALSE
    /\ co2Faulted = FALSE
    /\ deinitCount = 0
    /\ printCount = 0

\* main() has built the widgets and created both tasks (main.py 133-145)
Init ==
    /\ InitProcess
    /\ ppm = <<>>
    /\ level = <<>>
    /\ lastAct = "create_task"

-----------------------------------------------------------------------------
(* The scheduler (asyncio) *)

\* a statement of coroutine t may execute
Runs(t) == run = "Running" /\ current = t

\* a coroutine that is scheduled but not running is resumed
Resume(t) ==
    /\ run = "Running"
    /\ current = "none"
    /\ current' = t
    /\ sleep_ms' = [sleep_ms EXCEPT ![t] = 0]

\* await asyncio.sleep_ms(d): the only place a coroutine gives up the thread
Suspend(t, d) ==
    /\ Runs(t)
    /\ current' = "none"
    /\ sleep_ms' = [sleep_ms EXCEPT ![t] = d]

\* TaskRaises as it would be if the exception reached asyncio.run(main()) and
\* the except clause handled it
TaskRaises_propagates ==
    /\ current' = "none"
    /\ run' = "Terminating"
    /\ handler_pc' = "deinit"
    /\ exc' = "Exception"
    /\ UNCHANGED sleep_ms

\* A task made by asyncio.create_task and awaited by nobody raises: the task
\* ends, the event loop goes on and asyncio.run(main()) does not return.
TaskRaises ==
    /\ current' = "none"
    /\ UNCHANGED <<procVars, sleep_ms>>

histCo2 == <<histCmd, queried, readAny, histIter, histGap, co2Faulted>>
co2Locals == <<ppm, level>>

-----------------------------------------------------------------------------
(* main(), after asyncio.create_task(co2_task()) *)

\* await asyncio.sleep_ms(10000)  # keep main alive
MainSleep ==
    /\ main_pc = "keepalive"
    /\ Suspend("main", MAIN_KEEPALIVE_MS)
    /\ main_pc' = "sleeping"
    /\ lastAct' = "main.sleep_ms"
    /\ UNCHANGED <<procVars, ui_pc, co2_pc, co2Locals, labels, histCo2, histEnd>>

MainWake ==
    /\ main_pc = "sleeping"
    /\ Resume("main")
    /\ main_pc' = "keepalive"
    /\ lastAct' = "main.wake"
    /\ UNCHANGED <<procVars, ui_pc, co2_pc, co2Locals, labels, histCo2, histEnd>>

-----------------------------------------------------------------------------
(* ui_task() *)

\* first run of the task: print("UI task started")
UiBegin ==
    /\ ui_pc = "begin"
    /\ Resume("ui")
    /\ ui_pc' = "update"
    /\ lastAct' = "ui.begin"
    /\ UNCHANGED <<procVars, main_pc, co2_pc, co2Locals, labels, histCo2, histEnd>>

\* M5.update()
UiUpdate ==
    /\ ui_pc = "update"
    /\ Runs("ui")
    /\ ui_pc' = "sleep"
    /\ lastAct' = "M5.update"
    /\ UNCHANGED <<procVars, current, sleep_ms, main_pc, co2_pc, co2Locals,
                   labels, histCo2, histEnd>>

\* M5.update() raises
UiUpdateRaises ==
    /\ ui_pc = "update"
    /\ Runs("ui")
    /\ TaskRaises
    /\ ui_pc' = "faulted"
    /\ lastAct' = "ui.raise"
    /\ UNCHANGED <<main_pc, co2_pc, co2Locals, labels, histCo2, histEnd>>

\* await asyncio.sleep_ms(UI_UPDATE_RATE_MS)
UiSleep ==
    /\ ui_pc = "sleep"
    /\ Suspend("ui", UI_UPDATE_RATE_MS)
    /\ ui_pc' = "sleeping"
    /\ lastAct' = "ui.sleep_ms"
    /\ UNCHANGED <<procVars, main_pc, co2_pc, co2Locals, labels, histCo2, histEnd>>

\* UiWake resumed only while co2_task is alive
UiWake_needs_co2 ==
    /\ ui_pc = "sleeping"
    /\ co2_pc # "faulted"
    /\ Resume("ui")
    /\ ui_pc' = "update"
    /\ lastAct' = "ui.wake"
    /\ UNCHANGED <<procVars, main_pc, co2_pc, co2Locals, labels, histCo2, histEnd>>

UiWake ==
    /\ ui_pc = "sleeping"
    /\ Resume("ui")
    /\ ui_pc' = "update"
    /\ lastAct' = "ui.wake"
    /\ UNCHANGED <<procVars, main_pc, co2_pc, co2Locals, labels, histCo2, histEnd>>

-----------------------------------------------------------------------------
(* co2_task() *)

\* bookkeeping of one co2.is_data_ready() call; r is "yes", "no" or "none"
\* (the call raised)
QueryIssued(r) ==
    /\ queried' = TRUE
    /\ firstQuery' = ~queried
    /\ gapAtQuery' = sleptSince
    /\ sleptSince' = 0
    /\ iterReady' = r
    /\ textWrites' = NoWrites
    /\ colorWrites' = NoWrites

\* Co2Begin without the defensive stop command
Co2Begin_no_stop ==
    /\ co2_pc = "begin"
    /\ Resume("co2")
    /\ co2_pc' = "start_meas"
    /\ lastAct' = "co2.begin"
    /\ UNCHANGED <<procVars, main_pc, ui_pc, co2Locals, labels, histCo2, histEnd>>

\* first run of the task: print, I2C(0, ...), CO2Unit(i2c0)
Co2Begin ==
    /\ co2_pc = "begin"
    /\ Resume("co2")
    /\ co2_pc' = "stop"
    /\ lastAct' = "co2.begin"
    /\ UNCHANGED <<procVars, main_pc, ui_pc, co2Locals, labels, histCo2, histEnd>>

\* co2.set_stop_periodic_measurement()
Co2Stop ==
    /\ co2_pc = "stop"
    /\ Runs("co2")
    /\ co2_pc' = "start_meas"
    /\ stopCount' = stopCount + 1
    /\ lastAct' = "co2.set_stop_periodic_measurement"
    /\ UNCHANGED <<procVars, current, sleep_ms, main_pc, ui_pc, co2Locals, labels,
                   startCount, queried, readAny, histIter, histGap, co2Faulted,
                   histEnd>>

\* co2.set_start_periodic_measurement()
Co2Start ==
    /\ co2_pc = "start_meas"
    /\ Runs("co2")
    /\ co2_pc' = "poll"
    /\ startCount' = startCount + 1
    /\ lastAct' = "co2.set_start_periodic_measurement"
    /\ UNCHANGED <<procVars, current, sleep_ms, main_pc, ui_pc, co2Locals, labels,
                   stopCount, queried, readAny, histIter, histGap, co2Faulted,
                   histEnd>>

\* if co2.is_data_ready():
Co2Poll ==
    /\ co2_pc = "poll"
    /\ Runs("co2")
    /\ \E ready \in BOOLEAN :
          /\ co2_pc' = IF ready THEN "read_ppm" ELSE "sleep"
          /\ QueryIssued(IF ready THEN "yes" ELSE "no")
    /\ lastAct' = "co2.is_data_ready"
    /\ UNCHANGED <<procVars, current, sleep_ms, main_pc, ui_pc, co2Locals, labels,
                   histCmd, readAny, co2Faulted, histEnd>>

\* ppm = co2.co2
Co2ReadPpm ==
    /\ co2_pc = "read_ppm"
    /\ Runs("co2")
    /\ \E p \in PpmReadings : ppm' = <<p>>
    /\ readAny' = TRUE
    /\ co2_pc' = "classify"
    /\ lastAct' = "co2.co2"
    /\ UNCHANGED <<procVars, current, sleep_ms, main_pc, ui_pc, level, labels,
                   histCmd, queried, histIter, histGap, co2Faulted, histEnd>>

\* level = get_co2_level(ppm)
Co2Classify ==
    /\ co2_pc = "classify"
    /\ Runs("co2")
    /\ level' = get_co2_level(ppm[1])
    /\ co2_pc' = "print"
    /\ lastAct' = "get_co2_level"
    /\ UNCHANGED <<procVars, current, sleep_ms, main_pc, ui_pc, ppm, labels,
                   histCo2, histEnd>>

\* print("CO2: {} ppm, Level: {}".format(ppm, level["level"]))
Co2Print ==
    /\ co2_pc = "print"
    /\ Runs("co2")
    /\ level # <<>>
    /\ co2_pc' = "ppm_text"
    /\ lastAct' = "co2.print"
    /\ UNCHANGED <<procVars, current, sleep_ms, main_pc, ui_pc, co2Locals, labels,
                   histCo2, histEnd>>

\* level["level"] with level None: TypeError, raised out of co2_task
Co2PrintRaises ==
    /\ co2_pc = "print"
    /\ Runs("co2")
    /\ level = <<>>
    /\ TaskRaises
    /\ co2_pc' = "faulted"
    /\ lastAct' = "co2.TypeError"
    /\ UNCHANGED <<main_pc, ui_pc, co2Locals, labels, histCo2, histEnd>>

\* one widget write of the render block (main.py 107-125)
Co2Write(at, next, act, write) ==
    /\ co2_pc = at
    /\ Runs("co2")
    /\ write
    /\ co2_pc' = next
    /\ lastAct' = act
    /\ UNCHANGED <<procVars, current, sleep_ms, main_pc, ui_pc, co2Locals,
                   histCmd, queried, iterReady, histGap, co2Faulted, histEnd>>

\* label_ppm.set_text(str(ppm) + " ppm")
Co2PpmText ==
    /\ Co2Write("ppm_text", "ppm_color", "label_ppm.set_text",
                set_text("label_ppm", Formatted(ppm[1], " ppm")))
    /\ UNCHANGED readAny

\* label_ppm.set_text_color(level["color"], ...)
Co2PpmColor ==
    /\ Co2Write("ppm_color", "level_text", "label_ppm.set_text_color",
                set_text_color("label_ppm", level[1].color))
    /\ UNCHANGED readAny

\* label_level.set_text(level["level"])
Co2LevelText ==
    /\ Co2Write("level_text", "level_color", "label_level.set_text",
                set_text("label_level", Placeholder(level[1].level)))
    /\ UNCHANGED readAny

\* label_level.set_text_color(level["color"], ...)
Co2LevelColor ==
    /\ Co2Write("level_color", "temp_text", "label_level.set_text_color",
                set_text_color("label_level", level[1].color))
    /\ UNCHANGED readAny

\* label_temperature.set_text(str(co2.temperature) + " C")
Co2TempText ==
    /\ \E t \in TempReadings :
          Co2Write("temp_text", "temp_color", "label_temperature.set_text",
                   set_text("label_temperature", Formatted(t, " C")))
    /\ readAny' = TRUE

\* label_temperature.set_text_color(level["color"], ...)
Co2TempColor ==
    /\ Co2Write("temp_color", "hum_text", "label_temperature.set_text_color",
                set_text_color("label_temperature", level[1].color))
    /\ UNCHANGED readAny

\* label_humidity.set_text(str(co2.humidity) + " %")
Co2HumText ==
    /\ \E h \in HumReadings :
          Co2Write("hum_text", "hum_color", "label_humidity.set_text",
                   set_text("label_humidity", Formatted(h, " %")))
    /\ readAny' = TRUE

\* label_humidity.set_text_color(level["color"], ...)
Co2HumColor ==
    /\ Co2Write("hum_color", "sleep", "label_humidity.set_text_color",
                set_text_color("label_humidity", level[1].color))
    /\ UNCHANGED readAny

\* Co2Sleep without the await: the loop polls again at once
Co2Sleep_busy_wait ==
    /\ co2_pc = "sleep"
    /\ Runs("co2")
    /\ co2_pc' = "poll"
    /\ lastAct' = "co2.sleep_ms"
    /\ UNCHANGED <<procVars, current, sleep_ms, main_pc, ui_pc, co2Locals, labels,
                   histCo2, histEnd>>

\* await asyncio.sleep_ms(CO2_POLL_RATE_MS)  # sensor rate
Co2Sleep ==
    /\ co2_pc = "sleep"
    /\ Suspend("co2", CO2_POLL_RATE_MS)
    /\ co2_pc' = "sleeping"
    /\ sleptSince' = sleptSince + 1
    /\ lastAct' = "co2.sleep_ms"
    /\ UNCHANGED <<procVars, main_pc, ui_pc, co2Locals, labels, histCmd, queried,
                   readAny, histIter, gapAtQuery, firstQuery, co2Faulted, histEnd>>

\* the sleep is over: back to the top of `while True`
Co2Wake ==
    /\ co2_pc = "sleeping"
    /\ Resume("co2")
    /\ co2_pc' = "poll"
    /\ lastAct' = "co2.wake"
    /\ UNCHANGED <<procVars, main_pc, ui_pc, co2Locals, labels, histCo2, histEnd>>

\* the statements of co2_task that call the sensor driver
DriverCallPcs == {"stop", "start_meas", "poll", "read_ppm", "temp_text", "hum_text"}

\* a sensor-driver call raises (the call was issued, nothing was assigned)
Co2DriverRaises ==
    /\ co2_pc \in DriverCallPcs
    /\ Runs("co2")
    /\ TaskRaises
    /\ co2_pc' = "faulted"
    /\ co2Faulted' = TRUE
    /\ stopCount' = IF co2_pc = "stop" THEN stopCount + 1 ELSE stopCount
    /\ startCount' = IF co2_pc = "start_meas" THEN startCount + 1 ELSE startCount
    /\ IF co2_pc = "poll"
          THEN QueryIssued("none")
          ELSE UNCHANGED <<queried, histIter, histGap>>
    /\ readAny' = (readAny \/ co2_pc \in {"read_ppm", "temp_text", "hum_text"})
    /\ lastAct' = "co2.raise"
    /\ UNCHANGED <<main_pc, ui_pc, co2Locals, labels, histEnd>>

-----------------------------------------------------------------------------
(* asyncio.run(main()) ends: the except clause of main.py 153-156 *)

Interrupts == {"CancelledError", "KeyboardInterrupt"}

\* cancellation or Ctrl-C arrives: asyncio.run raises, whatever was running
Interrupt ==
    /\ run = "Running"
    /\ \E e \in Interrupts : exc' = e
    /\ run' = "Terminating"
    /\ handler_pc' = "deinit"
    /\ current' = "none"
    /\ lastAct' = "interrupt"
    /\ UNCHANGED <<sleep_ms, main_pc, ui_pc, co2_pc, co2Locals, labels, histCo2,
                   histEnd>>

\* HandlerDeinit with the m5ui.deinit() call left out
HandlerDeinit_skipped ==
    /\ run = "Terminating"
    /\ handler_pc = "deinit"
    /\ handler_pc' = "print"
    /\ lastAct' = "m5ui.deinit"
    /\ UNCHANGED <<run, exc, current, sleep_ms, main_pc, ui_pc, co2_pc, co2Locals,
                   labels, histCo2, histEnd>>

\* m5ui.deinit()
HandlerDeinit ==
    /\ run = "Terminating"
    /\ handler_pc = "deinit"
    /\ handler_pc' = "print"
    /\ deinitCount' = deinitCount + 1
    /\ lastAct' = "m5ui.deinit"
    /\ UNCHANGED <<run, exc, current, sleep_ms, main_pc, ui_pc, co2_pc, co2Locals,
                   labels, histCo2, printCount>>

\* from utility import print_error_msg; print_error_msg(e)
HandlerPrint ==
    /\ run = "Terminating"
    /\ handler_pc = "print"
    /\ handler_pc' = "done"
    /\ printCount' = printCount + 1
    /\ lastAct' = "print_error_msg"
    /\ UNCHANGED <<run, exc, current, sleep_ms, main_pc, ui_pc, co2_pc, co2Locals,
                   labels, histCo2, deinitCount>>

-----------------------------------------------------------------------------
Next ==
    \/ MainSleep \/ MainWake
    \/ UiBegin \/ UiUpdate \/ UiUpdateRaises \/ UiSleep \/ UiWake
    \/ Co2Begin \/ Co2Stop \/ Co2Start \/ Co2Poll \/ Co2ReadPpm \/ Co2Classify
    \/ Co2Print \/ Co2PrintRaises
    \/ Co2PpmText \/ Co2PpmColor \/ Co2LevelText \/ Co2LevelColor
    \/ Co2TempText \/ Co2TempColor \/ Co2HumText \/ Co2HumColor
    \/ Co2Sleep \/ Co2Wake \/ Co2DriverRaises
    \/ Interrupt \/ HandlerDeinit \/ HandlerPrint

Spec == Init /\ [][Next]_vars

\* The event loop runs the statements of the coroutine that holds the thread,
\* and resumes every suspended coroutine once its delay is over; an except
\* clause that was entered runs to its end.  Nothing makes an interrupt or an
\* exception of a driver or toolkit call happen.
Fairness ==
    /\ WF_vars(HandlerDeinit)
    /\ WF_vars(HandlerPrint)
    /\ WF_vars(MainSleep)
    /\ WF_vars(UiUpdate \/ UiSleep)
    /\ WF_vars(Co2Stop \/ Co2Start \/ Co2Poll \/ Co2ReadPpm \/ Co2Classify
                 \/ Co2Print \/ Co2PrintRaises
                 \/ Co2PpmText \/ Co2PpmColor \/ Co2LevelText \/ Co2LevelColor
                 \/ Co2TempText \/ Co2TempColor \/ Co2HumText \/ Co2HumColor
                 \/ Co2Sleep)
    /\ SF_vars(MainWake)
    /\ SF_vars(UiBegin \/ UiWake)
    /\ SF_vars(Co2Begin \/ Co2Wake)

FairSpec == Init /\ [][Next]_vars /\ Fairness

-----------------------------------------------------------------------------
(* get_co2_level on its own: every reading of PpmDomain is classified *)

InitLevel ==
    /\ InitProcess
    /\ ppm \in {<<p>> : p \in PpmDomain}
    /\ level = <<>>
    /\ lastAct = "reading"

\* level = get_co2_level(ppm)
CallGetCo2Level ==
    /\ lastAct = "reading"
    /\ level' = get_co2_level(ppm[1])
    /\ lastAct' = "get_co2_level"
    /\ UNCHANGED <<procVars, current, main_pc, ui_pc, co2_pc, sleep_ms, ppm,
                   labels, histCo2, histEnd>>

\* the next reading to classify
NextReading ==
    /\ lastAct = "get_co2_level"
    /\ \E p \in PpmDomain : ppm' = <<p>>
    /\ level' = <<>>
    /\ lastAct' = "reading"
    /\ UNCHANGED <<procVars, current, main_pc, ui_pc, co2_pc, sleep_ms,
                   labels, histCo2, histEnd>>

NextLevel == CallGetCo2Level \/ NextReading

SpecLevel == InitLevel /\ [][NextLevel]_vars

-----------------------------------------------------------------------------
(* Properties *)

Green == color_hex(4441167)

\* the half-open interval [min_ppm, max_ppm) of a band contains p
HalfOpen(band, p) ==
    /\ band.min_ppm <= p
    /\ (band.max_ppm # Inf => p < band.max_ppm)

\* the band table as the specification enumerates it
BandOf(p) ==
    IF p < 500 THEN "Excellent"
    ELSE IF p < 700 THEN "Good"
    ELSE IF p < 1000 THEN "Acceptable"
    ELSE IF p < 1500 THEN "Poor"
    ELSE "Bad"

AllOld == \A l \in LabelNames : textWrites[l] = 0 /\ colorWrites[l] = 0
AllNew == \A l \in LabelNames : textWrites[l] = 1 /\ colorWrites[l] = 1

\* co2_task has left the body of the current iteration of `while True`
IterationOver == co2_pc \in {"sleep", "sleeping", "faulted"}

\* positions between is_data_ready() returning True and the last widget write
RenderPcs == {"read_ppm", "classify", "print", "ppm_text", "ppm_color",
              "level_text", "level_color", "temp_text", "temp_color",
              "hum_text", "hum_color"}

LoopPcs == RenderPcs \cup {"poll", "sleep", "sleeping"}

OtherCoroutineActs ==
    {"main.sleep_ms", "main.wake", "ui.begin", "M5.update", "ui.raise",
     "ui.sleep_ms", "ui.wake"}

HandlerActs == {"interrupt", "m5ui.deinit", "print_error_msg"}

\* C1: for every reading ppm >= 0, get_co2_level returns exactly one band of
\* the table, its interval [min_ppm, max_ppm) contains ppm, it is the first
\* such band in table order, no other band contains ppm, and it is the band
\* the specification's table [0,500) [500,700) [700,1000) [1000,1500)
\* [1500,inf) names (so 499 -> Excellent, 500 -> Good, ..., 1000000 -> Bad).
C1_Classify ==
    (lastAct = "get_co2_level" /\ ppm[1] >= 0) =>
        /\ Len(level) = 1
        /\ \E i \in 1..Len(co2_levels) :
              /\ level[1] = co2_levels[i]
              /\ HalfOpen(co2_levels[i], ppm[1])
              /\ \A j \in 1..(i - 1) : ~HalfOpen(co2_levels[j], ppm[1])
        /\ Cardinality({i \in 1..Len(co2_levels) :
                            HalfOpen(co2_levels[i], ppm[1])}) = 1
        /\ Len(co2_levels) = 5
        /\ level[1].level = BandOf(ppm[1])

\* a boundary reading was classified
C1_Witness ==
    /\ lastAct = "get_co2_level"
    /\ ppm = <<1500>>
    /\ level # <<>>
    /\ level[1].level = "Bad"

\* C2: in an iteration whose is_data_ready() returned False no label is
\* written; in one where it returned True each of the four labels gets
\* exactly one set_text and one set_text_color, all with the color of the
\* band get_co2_level returns for the ppm read in that iteration.  (Stated
\* for the iterations in which no sensor-driver call raises.)
C2_OneConsistentWrite ==
    /\ iterReady # "yes" => AllOld
    /\ \A l \in LabelNames : textWrites[l] <= 1 /\ colorWrites[l] <= 1
    /\ (IterationOver /\ iterReady = "yes" /\ ~co2Faulted) =>
          /\ AllNew
          /\ \A l \in LabelNames :
                labels[l].color = get_co2_level(ppm[1])[1].color

\* a ready iteration ended with all four labels written once
C2_Witness ==
    /\ co2_pc = "sleep"
    /\ iterReady = "yes"
    /\ AllNew

\* C4: for a reading ppm < 0 get_co2_level returns None and co2_task treats
\* the poll as a no-render case: no label is written, the task does not
\* fault, and it goes on to the next poll.
C4_NegativeNoRender ==
    (iterReady = "yes" /\ ppm # <<>> /\ ppm[1] < 0 /\ co2_pc # "classify") =>
        /\ level = <<>>
        /\ AllOld
        /\ co2_pc # "faulted"

\* a negative reading was classified
C4_Witness ==
    /\ co2_pc = "print"
    /\ ppm # <<>>
    /\ ppm[1] < 0
    /\ level = <<>>

\* C5: set_stop_periodic_measurement() is issued at most once and before
\* set_start_periodic_measurement(), which is issued at most once; both have
\* been issued exactly once before the first is_data_ready() query and the
\* first property read, and at every position of the polling loop.
C5_StopThenStart ==
    /\ stopCount <= 1
    /\ startCount <= 1
    /\ startCount = 1 => stopCount = 1
    /\ (queried \/ readAny) => (stopCount = 1 /\ startCount = 1)
    /\ co2_pc \in LoopPcs => (stopCount = 1 /\ startCount = 1)
    /\ co2_pc \in {"begin", "stop"} => (stopCount = 0 /\ startCount = 0)

\* a second poll found data and read it, the commands still issued once
C5_Witness ==
    /\ queried
    /\ ~firstQuery
    /\ co2_pc = "classify"
    /\ stopCount = 1
    /\ startCount = 1

\* C8: Excellent and Good are distinct bands with the same color 0x43c44f,
\* so every label color written for a reading in [0, 700) is that color;
\* Acceptable, Poor and Bad each have a color different from it and from
\* each other, and that color is what is written for their readings.
C8_SharedGreen ==
    /\ co2_levels[1].level = "Excellent" /\ co2_levels[2].level = "Good"
    /\ co2_levels[1].max_ppm = co2_levels[2].min_ppm
    /\ co2_levels[1].color = Green /\ co2_levels[2].color = Green
    /\ \A i, j \in 3..5 : i # j => co2_levels[i].color # co2_levels[j].color
    /\ \A i \in 3..5 : co2_levels[i].color # Green
    /\ \A l \in LabelNames :
          (iterReady = "yes" /\ colorWrites[l] >= 1) =>
              /\ (ppm[1] >= 0 /\ ppm[1] < 700) <=> labels[l].color = Green
              /\ \E i \in 1..5 : /\ HalfOpen(co2_levels[i], ppm[1])
                                  /\ labels[l].color = co2_levels[i].color

\* a reading of 600 ppm (band Good) was rendered in the green of Excellent
C8_Witness ==
    /\ iterReady = "yes"
    /\ AllNew
    /\ ppm = <<600>>
    /\ labels["label_level"].text = Placeholder("Good")
    /\ \A l \in LabelNames : labels[l].color = co2_levels[1].color

\* C9: between is_data_ready() returning True and the last widget write no
\* statement of ui_task or of main is interleaved, so every M5.update() sees
\* the four labels all as the previous poll left them or all as the current
\* poll wrote them.
C9_NoTearing ==
    /\ lastAct \in OtherCoroutineActs => co2_pc \notin RenderPcs
    /\ lastAct = "M5.update" => (AllOld \/ AllNew)

\* M5.update() ran right after a complete render
C9_Witness ==
    /\ lastAct = "M5.update"
    /\ iterReady = "yes"
    /\ AllNew

\* C10 as stated: every is_data_ready() query, the first included, is
\* preceded by exactly one suspension of co2_task since the previous query
\* (or since set_start_periodic_measurement()).
C10_SleepBeforeEveryQuery ==
    queried => gapAtQuery = 1

\* C10 amended: the first is_data_ready() query follows
\* set_start_periodic_measurement() with no suspension in between; every
\* later query is preceded by exactly one suspension since the previous
\* query, and every suspension of co2_task is for CO2_POLL_RATE_MS = 1000 ms.
C10_SleepBetweenQueries ==
    /\ (queried /\ firstQuery) => gapAtQuery = 0
    /\ (queried /\ ~firstQuery) => gapAtQuery = 1
    /\ sleptSince <= 1
    /\ co2_pc = "sleeping" => sleep_ms["co2"] = 1000
    /\ CO2_POLL_RATE_MS = 1000

\* a second query was issued after one suspension
C10_Witness ==
    /\ lastAct = "co2.is_data_ready"
    /\ ~firstQuery
    /\ gapAtQuery = 1

C6_DisplayPumpLive ==
    \/ []<>(lastAct = "M5.update")
    \/ <>(run = "Terminating")
    \/ <>(ui_pc = "faulted")

\* M5.update() runs after co2_task has stopped
C6_Witness ==
    /\ co2_pc = "faulted"
    /\ lastAct = "M5.update"
    /\ sleep_ms["main"] = MAIN_KEEPALIVE_MS

=============================================================================
